---- MODULE Spec2Model ----
(***************************************************************************)
(* Model of audio_book_converter.converter.AudioBookConverter:            *)
(* convert_file and convert_directory over a POSIX file system, with the   *)
(* external ffmpeg process as the environment.  Paths and messages are     *)
(* strings, handled the way pathlib and the f-strings of the code handle   *)
(* them.                                                                   *)
(***************************************************************************)
EXTENDS Integers, Sequences, FiniteSets, TLC

(* ---------------------------- bounds ----------------------------------- *)
MaxCalls == 2   \* top-level calls of convert_file / convert_directory
MaxSegs == 2    \* segment files one ffmpeg run writes

(* ------------------------- text primitives ----------------------------- *)
Char(s, i) == SubSeq(s, i, i)

UpperAlpha == "ABCDEFGHIJKLMNOPQRSTUVWXYZ"
LowerAlpha == "abcdefghijklmnopqrstuvwxyz"
Digits == "0123456789"

LowerChar(c) ==
    IF \E i \in 1..26 : Char(UpperAlpha, i) = c
    THEN Char(LowerAlpha, CHOOSE i \in 1..26 : Char(UpperAlpha, i) = c)
    ELSE c

RECURSIVE Lower(_)
\* str.lower()
Lower(s) ==
    IF Len(s) = 0 THEN ""
    ELSE LowerChar(Char(s, 1)) \o Lower(SubSeq(s, 2, Len(s)))

RECURSIVE RFindFrom(_, _, _)
\* the last position <= i of s that holds ch, 0 when there is none
RFindFrom(s, ch, i) ==
    IF i = 0 THEN 0
    ELSE IF Char(s, i) = ch THEN i
    ELSE RFindFrom(s, ch, i - 1)

\* str.rfind(ch), 1-based, 0 when absent
RFind(s, ch) == RFindFrom(s, ch, Len(s))

StartsWith(s, p) == Len(s) >= Len(p) /\ SubSeq(s, 1, Len(p)) = p
EndsWith(s, p) == Len(s) >= Len(p) /\ SubSeq(s, Len(s) - Len(p) + 1, Len(s)) = p

RECURSIVE IntToStr(_)
\* str(int) for a non-negative integer
IntToStr(n) ==
    IF n < 10 THEN Char(Digits, n + 1)
    ELSE IntToStr(n \div 10) \o Char(Digits, (n % 10) + 1)

\* ffmpeg's expansion of %03d
Pad3(n) ==
    LET t == IntToStr(n)
    IN  IF Len(t) >= 3 THEN t
        ELSE IF Len(t) = 2 THEN "0" \o t
        ELSE "00" \o t

(* ------------------------------ pathlib -------------------------------- *)
RECURSIVE SplitParts(_)
\* the "/"-separated components of a string
SplitParts(s) ==
    LET k == RFind(s, "/")
    IN  IF k = 0 THEN <<s>>
        ELSE Append(SplitParts(SubSeq(s, 1, k - 1)), SubSeq(s, k + 1, Len(s)))

RECURSIVE JoinParts(_)
JoinParts(ps) ==
    IF Len(ps) = 0 THEN ""
    ELSE IF Len(ps) = 1 THEN ps[1]
    ELSE JoinParts(SubSeq(ps, 1, Len(ps) - 1)) \o "/" \o ps[Len(ps)]

\* str(Path(raw)): empty and "." components are dropped, so are repeated
\* and trailing slashes
PathOf(raw) ==
    LET kept == SelectSeq(SplitParts(raw), LAMBDA c : c # "" /\ c # ".")
    IN  IF StartsWith(raw, "/") THEN "/" \o JoinParts(kept)
        ELSE IF Len(kept) = 0 THEN "."
        ELSE JoinParts(kept)

\* PurePath.name
Name(p) ==
    IF p = "/" \/ p = "." THEN ""
    ELSE SubSeq(p, RFind(p, "/") + 1, Len(p))

\* PurePath.parent
Parent(p) ==
    LET k == RFind(p, "/")
    IN  IF k = 0 THEN "."
        ELSE IF k = 1 THEN "/"
        ELSE SubSeq(p, 1, k - 1)

\* PurePath.suffix
Suffix(p) ==
    LET n == Name(p)
        k == RFind(n, ".")
    IN  IF 1 < k /\ k < Len(n) THEN SubSeq(n, k, Len(n)) ELSE ""

\* PurePath.stem
Stem(p) ==
    LET n == Name(p)
        k == RFind(n, ".")
    IN  IF 1 < k /\ k < Len(n) THEN SubSeq(n, 1, k - 1) ELSE n

\* a / b
Join(a, b) == IF a = "/" THEN "/" \o b ELSE a \o "/" \o b

RECURSIVE Ancestors(_)
\* PurePath.parents, as a set
Ancestors(p) ==
    IF Parent(p) = p THEN {}
    ELSE {Parent(p)} \cup Ancestors(Parent(p))

(* --------------------------- input universe ---------------------------- *)
\* Optional[Path]: None, or a path that was supplied
None == [given |-> FALSE, path |-> ""]
Some(p) == [given |-> TRUE, path |-> p]

InitDirs == {"/", "/w", "/w/s", "/x", "/x/d.m4a", "/v", "/y"}
InitFiles == {"/w/b.m4a", "/w/c.M4A", "/w/n.txt", "/w/.m4a", "/w/s/e.m4a",
              "/v/a.m4a", "/v/a", "/v/.m4a", "/y/h.m4a", "/y/k.m4a"}

\* arguments the callers pass
InputFiles == {"/w/c.M4A", "/w/n.txt", "/w/zz.m4a", "/w/zz", "/x/d.m4a", "/w/s"}
OutputDirs == {Some("/o/q/"), Some("/w/n.txt")}
\* convert_file(input_file, output_dir) calls: inputs of every kind without
\* an output directory, and a valid one with each explicit output directory
Requests ==
    {<<f, None>> : f \in InputFiles} \cup ({"/w/b.m4a"} \X OutputDirs)
SourceFolders == {"/w/", "/v", "/w/n.txt", "/nope"}
\* directories handed to convert_directory when batches are studied
BatchFolders == {"/y", "/v", "/w/"}
SegmentTimes == {60, 300}
StderrTexts == {"bad header", ""}

(* -------------------------------- state -------------------------------- *)
VARIABLES
    files,            \* regular files of the file system
    dirs,             \* directories of the file system
    ffmpegInstalled,  \* whether "ffmpeg" can be started at all
    segment_time,     \* AudioBookConverter.segment_time
    pc,               \* "idle" | "running" (awaiting ffmpeg) | "loop" | "copy"
    mode,             \* which public method is on the stack
    inv,              \* the convert_file invocation in progress
    hist,             \* finished convert_file invocations, oldest first
    pending,          \* convert_directory: globbed paths not yet iterated
    results,          \* convert_directory: the results dict
    batch,            \* convert_directory: the call in progress
    lastDir,          \* the last finished convert_directory call
    ncalls,           \* top-level calls made so far
    running,          \* argument lists of the child processes now alive
    web,              \* process_with_progress: the request in progress
    lastWeb           \* the last finished process_with_progress request

vars == <<files, dirs, ffmpegInstalled, segment_time, pc, mode, inv, hist,
          pending, results, batch, lastDir, ncalls, running, web, lastWeb>>

Exists(p) == p \in files \cup dirs
IsDir(p) == p \in dirs

NoInv == [input_file |-> "", output_dir |-> None, input_path |-> "",
          out |-> "", argv |-> <<>>, top |-> FALSE]
EmptyReport == [n \in {} |-> <<FALSE, "">>]
NoBatch == [source_folder |-> "", discovered |-> {}, attempted |-> {},
            first |-> 0, listing |-> <<>>]
NoDirCall == [done |-> FALSE, source_folder |-> "", kind |-> "", exc |-> "",
              report |-> EmptyReport, discovered |-> {}, attempted |-> {},
              first |-> 0, last |-> 0]

NoWeb == [file_path |-> None, produced |-> {}]
NoWebCall == [done |-> FALSE, file_path |-> None, kind |-> "", exc |-> "",
              converted_files |-> <<>>, sources |-> <<>>, produced |-> {},
              message |-> "", zip_path |-> None]

Init ==
    /\ files = InitFiles
    /\ dirs = InitDirs
    /\ ffmpegInstalled \in BOOLEAN
    /\ segment_time \in SegmentTimes
    /\ pc = "idle"
    /\ mode = "none"
    /\ inv = NoInv
    /\ hist = <<>>
    /\ pending = {}
    /\ results = EmptyReport
    /\ batch = NoBatch
    /\ lastDir = NoDirCall
    /\ ncalls = 0
    /\ running = {}
    /\ web = NoWeb
    /\ lastWeb = NoWebCall

(* ----------------------------- convert_file ---------------------------- *)
\* variant: the output_dir argument is ignored
ResolveOutputDir_IgnoresArgument(input_path, output_dir) ==
    Join(Parent(input_path), Stem(input_path))

\* the output directory convert_file settles on
ResolveOutputDir(input_path, output_dir) ==
    IF ~output_dir.given THEN Join(Parent(input_path), Stem(input_path))
    ELSE PathOf(output_dir.path)

\* variant: mkdir(exist_ok=True) without parents=True
MkdirError_NoParents(p) ==
    IF p \in dirs THEN ""
    ELSE IF p \in files THEN "FileExistsError"
    ELSE IF \E a \in Ancestors(p) : a \in files THEN "NotADirectoryError"
    ELSE IF Parent(p) \notin dirs THEN "FileNotFoundError"
    ELSE ""

\* variant: mkdir(parents=True) without exist_ok=True
MkdirError_NoExistOk(p) ==
    IF p \in files \cup dirs THEN "FileExistsError"
    ELSE IF \E a \in Ancestors(p) : a \in files THEN "NotADirectoryError"
    ELSE ""

\* Path.mkdir(exist_ok=True, parents=True): the exception it raises, or ""
MkdirError(p) ==
    IF p \in dirs THEN ""
    ELSE IF p \in files THEN "FileExistsError"
    ELSE IF \E a \in Ancestors(p) : a \in files THEN "NotADirectoryError"
    ELSE ""

\* the directories after a mkdir that did not raise
MkdirDirs(p) == dirs \cup {p} \cup Ancestors(p)

\* variant: the command of the older script, without -y
FfmpegCommand_NoOverwrite(input_path, out, base_name) ==
    << "ffmpeg",
       "-i", input_path,
       "-f", "segment",
       "-segment_time", IntToStr(segment_time),
       "-c:a", "mp3",
       Join(out, "%03d_" \o base_name \o ".mp3") >>

FfmpegCommand(input_path, out, base_name) ==
    << "ffmpeg",
       "-i", input_path,
       "-f", "segment",
       "-segment_time", IntToStr(segment_time),
       "-c:a", "mp3",
       "-y",
       Join(out, "%03d_" \o base_name \o ".mp3") >>

\* the one file ffmpeg's segment muxer writes for counter value i
SegmentFile(pattern, i) ==
    Join(Parent(pattern), Pad3(i) \o SubSeq(Name(pattern), 5, Len(Name(pattern))))

NotExistMsg(input_path) == "Input file does not exist: " \o input_path
BadSuffixMsg(input_path) ==
    "Input file must be an M4A file, got: " \o Suffix(input_path)
\* variant: the message leaves out what ffmpeg wrote to stderr
ToolErrorMsg_NoStderr(input_path, stderr) == "Error converting " \o input_path

ToolErrorMsg(input_path, stderr) ==
    "Error converting " \o input_path \o ": " \o stderr

\* variant: the suffix is compared without lower()
SuffixAccepted_CaseSensitive(input_path) == Suffix(input_path) = ".m4a"

\* the extension test of convert_file
SuffixAccepted(input_path) == Lower(Suffix(input_path)) = ".m4a"

\* convert_file from its first line up to the start of the child process:
\* what it did, and how it left (return, raise, or waiting for the child)
Begin(input_file, output_dir) ==
    LET input_path == PathOf(input_file)
        out == ResolveOutputDir(input_path, output_dir)
        argv == FfmpegCommand(input_path, out, Stem(input_path))
        base == [kind |-> "return", ret |-> <<FALSE, "">>, exc |-> "",
                 input_path |-> input_path, out |-> "", argv |-> <<>>,
                 dirs |-> dirs, spawned |-> <<>>]
    IN  IF ~Exists(input_path)
        THEN [base EXCEPT !.ret = <<FALSE, NotExistMsg(input_path)>>]
        ELSE IF ~SuffixAccepted(input_path)
        THEN [base EXCEPT !.ret = <<FALSE, BadSuffixMsg(input_path)>>]
        ELSE IF MkdirError(out) # ""
        THEN [base EXCEPT !.kind = "raise", !.exc = MkdirError(out), !.out = out]
        ELSE IF ~ffmpegInstalled
        THEN [base EXCEPT !.kind = "raise", !.exc = "FileNotFoundError",
                          !.out = out, !.argv = argv, !.dirs = MkdirDirs(out)]
        ELSE [base EXCEPT !.kind = "spawn", !.out = out, !.argv = argv,
                          !.dirs = MkdirDirs(out), !.spawned = <<argv>>]

\* the record kept of a finished invocation
Finished(input_file, output_dir, top, b, kind, ret, exc, rc, stderr) ==
    [input_file |-> input_file, output_dir |-> output_dir, top |-> top,
     input_path |-> b.input_path, out |-> b.out, kind |-> kind, ret |-> ret,
     exc |-> exc, argv |-> b.argv, spawned |-> b.spawned, rc |-> rc,
     stderr |-> stderr]

\* results[key] = value
SetItem(d, key, value) ==
    [n \in DOMAIN d \cup {key} |-> IF n = key THEN value ELSE d[n]]

\* a caller invokes convert_file; the step runs until the call returns,
\* raises, or blocks on the child process
ConvertFileCall(input_file, output_dir) ==
    /\ pc = "idle"
    /\ ncalls < MaxCalls
    /\ ncalls' = ncalls + 1
    /\ LET b == Begin(input_file, output_dir)
       IN  /\ dirs' = b.dirs
           /\ IF b.kind = "spawn"
              THEN /\ pc' = "running"
                   /\ mode' = "file"
                   /\ inv' = [input_file |-> input_file, output_dir |-> output_dir,
                              input_path |-> b.input_path, out |-> b.out,
                              argv |-> b.argv, top |-> TRUE]
                   /\ hist' = hist
                   /\ running' = running \cup {b.argv}
              ELSE /\ pc' = "idle"
                   /\ mode' = "none"
                   /\ inv' = NoInv
                   /\ hist' = Append(hist, Finished(input_file, output_dir, TRUE, b,
                                        b.kind, b.ret, b.exc, "none", ""))
                   /\ running' = running
    /\ UNCHANGED <<files, ffmpegInstalled, segment_time, pending, results,
                   batch, lastDir, web, lastWeb>>

\* the child exits; subprocess.run returns or raises CalledProcessError and
\* convert_file returns to its caller.  A run that exits with status zero
\* has written nsegs >= 1 segment files, a failed run none.
ToolExit(rc, stderr, nsegs) ==
    /\ pc = "running"
    /\ rc = 0 <=> nsegs >= 1
    /\ files' = files \cup {SegmentFile(inv.argv[Len(inv.argv)], i) : i \in 0..(nsegs - 1)}
    /\ web' = IF mode = "web"
              THEN [web EXCEPT !.produced =
                      {SegmentFile(inv.argv[Len(inv.argv)], i) : i \in 0..(nsegs - 1)}]
              ELSE web
    /\ LET ret == IF rc = 0 THEN <<TRUE, inv.out>>
                  ELSE <<FALSE, ToolErrorMsg(inv.input_path, stderr)>>
           b == [input_path |-> inv.input_path, out |-> inv.out,
                 argv |-> inv.argv, spawned |-> <<inv.argv>>]
           rec == Finished(inv.input_file, inv.output_dir, inv.top, b, "return",
                           ret, "", IF rc = 0 THEN "zero" ELSE "nonzero", stderr)
       IN  /\ hist' = Append(hist, rec)
           /\ IF mode = "file"
              THEN /\ pc' = "idle"
                   /\ mode' = "none"
                   /\ results' = results
              ELSE IF mode = "web"
              THEN /\ pc' = "copy"
                   /\ mode' = mode
                   /\ results' = results
              ELSE /\ pc' = "loop"
                   /\ mode' = mode
                   /\ results' = SetItem(results, Name(inv.input_file), ret)
    /\ inv' = NoInv
    /\ running' = running \ {inv.argv}
    /\ UNCHANGED <<dirs, ffmpegInstalled, segment_time, pending, batch,
                   lastDir, ncalls, lastWeb>>

(* --------------------------- convert_directory ------------------------- *)
\* fnmatch of a name against "*.m4a" under POSIX rules (case matters)
MatchesPattern(name) == EndsWith(name, ".m4a")

\* source_path.glob("*.m4a"): the matching entries directly inside
Glob(source_path) ==
    {p \in (files \cup dirs) \ {source_path} :
        Parent(p) = source_path /\ MatchesPattern(Name(p))}

\* the orders in which the directory listing may yield a set of entries
Orderings(S) ==
    {o \in [1..Cardinality(S) -> S] :
        \A i, j \in 1..Cardinality(S) : i # j => o[i] # o[j]}

\* the record kept of a finished convert_directory call: how it left, the
\* listing it worked on, and the stretch first..last of hist it produced
DirCall(kind, exc, report, attempted, last) ==
    [done |-> TRUE, source_folder |-> batch.source_folder, kind |-> kind,
     exc |-> exc, report |-> report, discovered |-> batch.discovered,
     attempted |-> attempted, first |-> batch.first, last |-> last]

\* variant: a missing directory is reported by raising
NotADirectoryResult_Raises(source_folder) ==
    [done |-> TRUE, source_folder |-> source_folder, kind |-> "raise",
     exc |-> "NotADirectoryError", report |-> EmptyReport, discovered |-> {},
     attempted |-> {}, first |-> Len(hist) + 1, last |-> Len(hist)]

\* convert_directory on something that is not a directory: return {}
NotADirectoryResult(source_folder) ==
    [done |-> TRUE, source_folder |-> source_folder, kind |-> "return",
     exc |-> "", report |-> EmptyReport, discovered |-> {}, attempted |-> {},
     first |-> Len(hist) + 1, last |-> Len(hist)]

\* a caller invokes convert_directory: the is_dir test and the listing
ConvertDirectoryCall(source_folder) ==
    /\ pc = "idle"
    /\ ncalls < MaxCalls
    /\ ncalls' = ncalls + 1
    /\ LET source_path == PathOf(source_folder)
       IN  IF ~IsDir(source_path)
           THEN /\ lastDir' = NotADirectoryResult(source_folder)
                /\ UNCHANGED <<pc, mode, pending, results, batch>>
           ELSE /\ pc' = "loop"
                /\ mode' = "dir"
                /\ pending' = Glob(source_path)
                /\ results' = EmptyReport
                /\ \E listing \in Orderings(Glob(source_path)) :
                      batch' = [source_folder |-> source_folder,
                                discovered |-> Glob(source_path),
                                attempted |-> {}, first |-> Len(hist) + 1,
                                listing |-> listing]
                /\ lastDir' = lastDir
    /\ UNCHANGED <<files, dirs, ffmpegInstalled, segment_time, inv, hist,
                   running, web, lastWeb>>

\* the path the listing yields next
NextPath == batch.listing[Len(batch.listing) - Cardinality(pending) + 1]

\* variant: the child is started and not waited for (Popen in place of run)
LoopResumes_NoWait == pc \in {"loop", "running"}

\* the for loop takes its next turn once convert_file has returned, and
\* subprocess.run lets it return only when the child has exited
LoopResumes == pc = "loop"

\* one turn of the for loop: the next path of the listing goes to convert_file
DirIterate ==
    /\ LoopResumes
    /\ pending # {}
    /\ \E file_path \in {NextPath} :
         LET b == Begin(file_path, None)
         IN  /\ pending' = pending \ {file_path}
             /\ batch' = [batch EXCEPT !.attempted = @ \cup {file_path}]
             /\ dirs' = b.dirs
             /\ CASE b.kind = "spawn" ->
                      /\ pc' = "running"
                      /\ inv' = [input_file |-> file_path, output_dir |-> None,
                                 input_path |-> b.input_path, out |-> b.out,
                                 argv |-> b.argv, top |-> FALSE]
                      /\ running' = running \cup {b.argv}
                      /\ UNCHANGED <<mode, hist, results, lastDir>>
                  [] b.kind = "return" ->
                      /\ results' = SetItem(results, Name(file_path), b.ret)
                      /\ hist' = Append(hist, Finished(file_path, None, FALSE, b,
                                           "return", b.ret, "", "none", ""))
                      /\ UNCHANGED <<pc, mode, inv, lastDir, running>>
                  [] b.kind = "raise" ->
                      \* the exception leaves convert_directory as well
                      /\ hist' = Append(hist, Finished(file_path, None, FALSE, b,
                                           "raise", b.ret, b.exc, "none", ""))
                      /\ lastDir' = DirCall("raise", b.exc, EmptyReport,
                                          batch.attempted \cup {file_path},
                                          Len(hist) + 1)
                      /\ pc' = "idle"
                      /\ mode' = "none"
                      /\ UNCHANGED <<inv, results, running>>
    /\ UNCHANGED <<files, ffmpegInstalled, segment_time, ncalls, web, lastWeb>>

\* variant: the loop is left as soon as one entry of results is a failure
DirReturn_StopOnFailure ==
    /\ pc = "loop"
    /\ pending = {} \/ \E n \in DOMAIN results : ~results[n][1]
    /\ lastDir' = DirCall("return", "", results, batch.attempted, Len(hist))
    /\ pc' = "idle"
    /\ mode' = "none"
    /\ UNCHANGED <<files, dirs, ffmpegInstalled, segment_time, inv, hist,
                   pending, results, batch, ncalls, running, web, lastWeb>>

\* the listing is exhausted: return results
DirReturn ==
    /\ pc = "loop"
    /\ pending = {}
    /\ lastDir' = DirCall("return", "", results, batch.attempted, Len(hist))
    /\ pc' = "idle"
    /\ mode' = "none"
    /\ UNCHANGED <<files, dirs, ffmpegInstalled, segment_time, inv, hist,
                   pending, results, batch, ncalls, running, web, lastWeb>>

(* ------------------------ web: process_with_progress ------------------- *)
\* the persistent directory web.py creates when it is imported
OUTPUT_DIR == "/app/output"

\* what the upload widget hands over: nothing, or the path of the upload
Uploads == {None, Some("/w/b.m4a"), Some("/w/n.txt")}
\* time.strftime("%Y%m%d-%H%M%S") at the moment the archive is made
Timestamps == {"20261104-101500", "20261104-101501"}

IsDigit(c) == \E i \in 1..10 : Char(Digits, i) = c

\* fnmatch of a name against "[0-9][0-9][0-9]_*.mp3"
MatchesSegmentPattern(name) ==
    /\ Len(name) >= 8
    /\ \A i \in 1..3 : IsDigit(Char(name, i))
    /\ Char(name, 4) = "_"
    /\ EndsWith(name, ".mp3")

\* output_dir.glob("[0-9][0-9][0-9]_*.mp3")
SegmentGlob(output_dir) ==
    {p \in (files \cup dirs) \ {output_dir} :
        Parent(p) = output_dir /\ MatchesSegmentPattern(Name(p))}

\* the characters of the paths at hand, in code point order
CodePointOrder == "%-./" \o Digits \o UpperAlpha \o "_" \o LowerAlpha
Ord(c) == CHOOSE i \in 1..Len(CodePointOrder) : Char(CodePointOrder, i) = c

RECURSIVE StrLess(_, _)
\* a < b on str
StrLess(a, b) ==
    IF Len(b) = 0 THEN FALSE
    ELSE IF Len(a) = 0 THEN TRUE
    ELSE IF Char(a, 1) # Char(b, 1) THEN Ord(Char(a, 1)) < Ord(Char(b, 1))
    ELSE StrLess(SubSeq(a, 2, Len(a)), SubSeq(b, 2, Len(b)))

RECURSIVE Sorted(_)
\* sorted(paths)
Sorted(S) ==
    IF S = {} THEN <<>>
    ELSE LET least == CHOOSE x \in S : \A y \in S \ {x} : StrLess(x, y)
         IN  <<least>> \o Sorted(S \ {least})

\* tempfile.mkdtemp(dir=OUTPUT_DIR): a directory name not in use
MkdTemp ==
    Join(OUTPUT_DIR,
         "tmp" \o IntToStr(Cardinality({d \in dirs : Parent(d) = OUTPUT_DIR})))

\* create_zip_archive: the path of the archive, "" when there is no file
ZipPath(converted_files, timestamp) ==
    IF Len(converted_files) = 0 THEN ""
    ELSE Join(OUTPUT_DIR, "audiobook_mp3s_" \o timestamp \o ".zip")

\* the record kept of what a request yielded last, or of its exception
WebCall(file_path, kind, exc, converted_files, sources, produced, message, zip_path) ==
    [done |-> TRUE, file_path |-> file_path, kind |-> kind, exc |-> exc,
     converted_files |-> converted_files, sources |-> sources,
     produced |-> produced, message |-> message, zip_path |-> zip_path]

\* a request arrives; process_with_progress runs up to the point where
\* convert_file returns, raises, or blocks on the child process
ProcessWithProgress(file_path) ==
    /\ pc = "idle"
    /\ ncalls < MaxCalls
    /\ ncalls' = ncalls + 1
    /\ IF ~file_path.given
       THEN /\ lastWeb' = WebCall(file_path, "yield", "", <<>>, <<>>, {},
                                  "Please upload a file first", None)
            /\ UNCHANGED <<dirs, pc, mode, inv, hist, running, web>>
       ELSE LET b == Begin(file_path.path, None)
            IN  /\ dirs' = b.dirs
                /\ CASE b.kind = "spawn" ->
                         /\ pc' = "running"
                         /\ mode' = "web"
                         /\ inv' = [input_file |-> file_path.path,
                                    output_dir |-> None,
                                    input_path |-> b.input_path, out |-> b.out,
                                    argv |-> b.argv, top |-> FALSE]
                         /\ running' = running \cup {b.argv}
                         /\ web' = [file_path |-> file_path, produced |-> {}]
                         /\ UNCHANGED <<hist, lastWeb>>
                     [] b.kind = "return" ->
                         /\ hist' = Append(hist, Finished(file_path.path, None,
                                       FALSE, b, "return", b.ret, "", "none", ""))
                         /\ lastWeb' = WebCall(file_path, "yield", "", <<>>, <<>>,
                                         {}, "Error: " \o b.ret[2], None)
                         /\ UNCHANGED <<pc, mode, inv, running, web>>
                     [] b.kind = "raise" ->
                         /\ hist' = Append(hist, Finished(file_path.path, None,
                                       FALSE, b, "raise", b.ret, b.exc, "none", ""))
                         /\ lastWeb' = WebCall(file_path, "raise", b.exc, <<>>,
                                         <<>>, {}, "", None)
                         /\ UNCHANGED <<pc, mode, inv, running, web>>
    /\ UNCHANGED <<files, ffmpegInstalled, segment_time, pending, results,
                   batch, lastDir>>

\* convert_file has returned: the rest of process_with_progress, from the
\* success test to the last yield
WebCopy(timestamp) ==
    /\ pc = "copy"
    /\ LET success == hist[Len(hist)].ret[1]
           result == hist[Len(hist)].ret[2]
           output_dir == PathOf(result)
           persistent_dir == MkdTemp
           sources == Sorted(SegmentGlob(output_dir))
           converted_files ==
               [i \in 1..Len(sources) |-> Join(persistent_dir, Name(sources[i]))]
           zip_path == ZipPath(converted_files, timestamp)
       IN  IF ~success
           THEN /\ lastWeb' = WebCall(web.file_path, "yield", "", <<>>, <<>>,
                                      web.produced, "Error: " \o result, None)
                /\ UNCHANGED <<files, dirs>>
           ELSE /\ dirs' = dirs \cup {persistent_dir}
                /\ files' = files
                      \cup {converted_files[i] : i \in 1..Len(converted_files)}
                      \cup (IF zip_path = "" THEN {} ELSE {zip_path})
                /\ lastWeb' = WebCall(web.file_path, "yield", "", converted_files,
                                sources, web.produced,
                                "Successfully converted to "
                                   \o IntToStr(Len(converted_files))
                                   \o " MP3 segments",
                                Some(zip_path))
    /\ pc' = "idle"
    /\ mode' = "none"
    /\ web' = NoWeb
    /\ UNCHANGED <<ffmpegInstalled, segment_time, inv, hist, pending, results,
                   batch, lastDir, ncalls, running>>

(* ---------------------------- specification ---------------------------- *)
Next ==
    \/ \E r \in Requests : ConvertFileCall(r[1], r[2])
    \/ \E rc \in {0, 1}, e \in StderrTexts, n \in 0..MaxSegs : ToolExit(rc, e, n)
    \/ \E d \in SourceFolders : ConvertDirectoryCall(d)
    \/ DirIterate
    \/ DirReturn

Spec == Init /\ [][Next]_vars

\* batches only: one converter with the default segment time,
\* convert_directory called on directories that hold several candidates, and
\* a tool that writes the same text to stderr whenever it fails
InitBatch == Init /\ segment_time = 300

NextBatch ==
    \/ \E d \in BatchFolders : ConvertDirectoryCall(d)
    \/ \E rc \in {0, 1}, n \in 0..MaxSegs : ToolExit(rc, "bad header", n)
    \/ DirIterate
    \/ DirReturn

SpecBatch == InitBatch /\ [][NextBatch]_vars

\* the web UI only: web.py has been imported, so OUTPUT_DIR exists, and
\* requests come in one after the other
InitWeb ==
    /\ files = InitFiles
    /\ dirs = InitDirs \cup {OUTPUT_DIR} \cup Ancestors(OUTPUT_DIR)
    /\ ffmpegInstalled \in BOOLEAN
    /\ segment_time \in SegmentTimes
    /\ pc = "idle"
    /\ mode = "none"
    /\ inv = NoInv
    /\ hist = <<>>
    /\ pending = {}
    /\ results = EmptyReport
    /\ batch = NoBatch
    /\ lastDir = NoDirCall
    /\ ncalls = 0
    /\ running = {}
    /\ web = NoWeb
    /\ lastWeb = NoWebCall

NextWeb ==
    \/ \E u \in Uploads : ProcessWithProgress(u)
    \/ \E rc \in {0, 1}, e \in StderrTexts, n \in 0..MaxSegs : ToolExit(rc, e, n)
    \/ \E t \in Timestamps : WebCopy(t)

SpecWeb == InitWeb /\ [][NextWeb]_vars

(* ------------------------------ properties ----------------------------- *)
Contains(s, sub) ==
    \E i \in 1..(Len(s) - Len(sub) + 1) : SubSeq(s, i, i + Len(sub) - 1) = sub

\* the finished convert_file invocations
Calls == {hist[i] : i \in 1..Len(hist)}

\* the convert_file invocation that finished last.  hist only grows at its
\* end, so every invocation is the last one in the state it returns into: a
\* predicate that holds of Returned in every reachable state holds of every
\* invocation, judged against the file system it returned into.
Returned == IF hist = <<>> THEN {} ELSE {hist[Len(hist)]}

IsFailure(h) == h.kind = "return" /\ h.ret[1] = FALSE
IsSuccess(h) == h.kind = "return" /\ h.ret[1] = TRUE

\* C1: an input path that is not an existing regular file (a directory, or
\* nothing at all) makes convert_file return a Failure whose message mentions
\* non-existence, with no external process spawned.
C1_NotARegularFileIsRejected ==
    \A h \in Returned :
        h.input_path \notin files =>
            /\ IsFailure(h)
            /\ Contains(h.ret[2], "does not exist")
            /\ h.spawned = <<>>

\* C2: an existing file whose extension is not .m4a, letter case ignored, is
\* refused with a Failure mentioning the extension and no process is spawned;
\* an existing file whose extension is .m4a in any case is not refused so.
C2_ExtensionGate ==
    \A h \in Returned :
        h.input_path \in files =>
            IF Lower(Suffix(h.input_path)) # ".m4a"
            THEN /\ IsFailure(h)
                 /\ Contains(h.ret[2], "must be an M4A file")
                 /\ h.spawned = <<>>
            ELSE ~(IsFailure(h) /\ Contains(h.ret[2], "must be an M4A file"))

\* C2 witness: a .txt file was refused and an upper-case .M4A file converted
C2_Witness ==
    /\ \E h \in Calls : /\ h.input_path \in files
                        /\ Suffix(h.input_path) = ".txt"
                        /\ IsFailure(h)
    /\ \E h \in Calls : /\ h.input_path \in files
                        /\ Suffix(h.input_path) = ".M4A"
                        /\ IsSuccess(h)

\* the names of a set of paths
Names(ps) == {Name(p) : p \in ps}

\* C3 (as claimed): whatever happens to the single files, the tool failing to
\* start included, convert_directory attempts every discovered file and
\* returns a report with an entry for each.
C3_EveryFileAttemptedAlways ==
    (lastDir.done /\ lastDir.discovered # {}) =>
        /\ lastDir.kind = "return"
        /\ lastDir.attempted = lastDir.discovered
        /\ DOMAIN lastDir.report = Names(lastDir.discovered)

\* why an invocation raised: the output directory could not be made, or
\* ffmpeg could not be started
OutputDirBlocked(h) == h.out \in files \/ \E a \in Ancestors(h.out) : a \in files

\* C3 (amended): a Failure outcome of one file (validation failure, non-zero
\* exit) never aborts the batch: a convert_directory call that returns has
\* attempted every discovered file and reports each of them.  The batch is
\* aborted, by an exception leaving convert_directory, exactly when a
\* convert_file raised because the output directory could not be created or
\* ffmpeg could not be started.
C3_FailureOutcomeNeverAborts ==
    lastDir.done =>
        /\ lastDir.kind = "return" =>
              /\ lastDir.attempted = lastDir.discovered
              /\ DOMAIN lastDir.report = Names(lastDir.discovered)
              /\ \A i \in lastDir.first..lastDir.last : hist[i].kind = "return"
        /\ lastDir.kind = "raise" =>
              /\ lastDir.last >= lastDir.first
              /\ hist[lastDir.last].kind = "raise"
              /\ hist[lastDir.last].exc = lastDir.exc
              /\ OutputDirBlocked(hist[lastDir.last]) \/ ~ffmpegInstalled
              /\ \A i \in lastDir.first..(lastDir.last - 1) : hist[i].kind = "return"

\* C3 witness: a batch that returned a report holding a validation failure
\* next to an entry for a file the tool was run on
C3_Witness ==
    /\ lastDir.done
    /\ lastDir.kind = "return"
    /\ \E i, j \in lastDir.first..lastDir.last :
          /\ IsFailure(hist[i]) /\ hist[i].rc = "none"
          /\ hist[j].rc # "none"

\* C4 (as claimed): for an existing directory the keys of the returned report
\* are exactly the names of the entries directly inside it whose extension is
\* .m4a with letter case ignored; convert_file ran once per key and each
\* value is what it returned.
C4_ReportKeysCaseInsensitive ==
    (lastDir.done /\ lastDir.kind = "return"
        /\ PathOf(lastDir.source_folder) \in dirs) =>
        LET src == PathOf(lastDir.source_folder)
            entries == {p \in (files \cup dirs) \ {src} : Parent(p) = src}
            expected == {p \in entries : Lower(Suffix(p)) = ".m4a"}
            run == lastDir.first..lastDir.last
        IN  /\ DOMAIN lastDir.report = Names(expected)
            /\ \A k \in DOMAIN lastDir.report :
                  Cardinality({i \in run : Name(hist[i].input_path) = k}) = 1
            /\ \A i \in run :
                  lastDir.report[Name(hist[i].input_path)] = hist[i].ret

\* C5: convert_directory on a path that is not an existing directory returns
\* an empty report, raises nothing and runs convert_file (hence ffmpeg) for
\* nothing.
C5_NotADirectoryGivesEmptyReport ==
    (lastDir.done /\ PathOf(lastDir.source_folder) \notin dirs) =>
        /\ lastDir.kind = "return"
        /\ lastDir.report = EmptyReport
        /\ lastDir.last < lastDir.first

\* C5 witness: the call was made on a path that names a regular file
C5_Witness ==
    /\ lastDir.done
    /\ PathOf(lastDir.source_folder) \in files
    /\ lastDir.report = EmptyReport

\* C6 (as claimed): every convert_file call returns; no exception escapes.
C6_NoExceptionEscapes == \A h \in Returned : h.kind = "return"

\* the two gates of convert_file, as the code applies them
PassedValidation(h) ==
    /\ h.input_path \in files \cup dirs
    /\ Lower(Suffix(h.input_path)) = ".m4a"

\* C6 (amended): every convert_file call ends in exactly one of: Success
\* carrying the output directory, Failure carrying a message, or an exception
\* leaving the call; the exception happens exactly when validation passed and
\* then the output directory could not be created (FileExistsError,
\* NotADirectoryError) or ffmpeg could not be started (FileNotFoundError).
C6_OneOutcomeOrEscapingFault ==
    \A h \in Returned :
        /\ h.kind \in {"return", "raise"}
        /\ h.kind = "return" =>
              /\ h.exc = ""
              /\ IF h.ret[1] THEN h.ret[2] = h.out /\ h.out \in dirs
                 ELSE Len(h.ret[2]) > 0
        /\ h.kind = "raise" =>
              \/ h.exc \in {"FileExistsError", "NotADirectoryError"}
                    /\ OutputDirBlocked(h)
              \/ h.exc = "FileNotFoundError" /\ ~OutputDirBlocked(h)
                    /\ ~ffmpegInstalled
        /\ h.kind = "raise" <=>
              PassedValidation(h) /\ (OutputDirBlocked(h) \/ ~ffmpegInstalled)

\* C6 witness: one call returned Success and one raised out of mkdir
C6_Witness ==
    /\ \E h \in Calls : IsSuccess(h)
    /\ \E h \in Calls : h.kind = "raise" /\ h.exc = "FileExistsError"

\* C7: when ffmpeg exits with a non-zero status convert_file returns a
\* Failure whose message is a prefix naming the input file followed by the
\* captured stderr text verbatim, and one process was spawned, no more.
C7_NonZeroExitIsFailureWithStderr ==
    \A h \in Returned :
        h.rc = "nonzero" =>
            /\ IsFailure(h)
            /\ StartsWith(h.ret[2], "Error converting " \o h.input_path)
            /\ EndsWith(h.ret[2], ": " \o h.stderr)
            /\ Len(h.ret[2]) =
                 Len("Error converting ") + Len(h.input_path) + 2 + Len(h.stderr)
            /\ Len(h.spawned) = 1

\* C7 witness: ffmpeg failed with the stderr text "bad header"
C7_Witness ==
    \E h \in Calls : h.rc = "nonzero" /\ h.stderr = "bad header" /\ IsFailure(h)

\* the output directory the caller is promised: the argument when there is
\* one, else the input's parent joined with the input's stem
PromisedOutputDir(h) ==
    IF h.output_dir.given THEN PathOf(h.output_dir.path)
    ELSE Join(Parent(h.input_path), Stem(h.input_path))

\* C8: when validation passes and ffmpeg exits with status zero,
\* convert_file returns Success carrying the output directory, which is the
\* output_dir argument when one was supplied and parent(input)/stem(input)
\* otherwise, and that directory exists.
C8_SuccessCarriesOutputDir ==
    \A h \in Returned :
        h.rc = "zero" =>
            /\ h.kind = "return"
            /\ h.ret = <<TRUE, PromisedOutputDir(h)>>
            /\ PromisedOutputDir(h) \in dirs

\* C8 witness: a Success with an explicit output directory written with a
\* trailing slash, and a Success with the derived one
C8_Witness ==
    /\ \E h \in Calls : /\ h.rc = "zero"
                        /\ h.output_dir = Some("/o/q/")
                        /\ h.ret = <<TRUE, "/o/q">>
    /\ \E h \in Calls : /\ h.rc = "zero"
                        /\ ~h.output_dir.given
                        /\ h.ret = <<TRUE, "/w/b">>

\* the decimal text of the configured segment seconds
SegmentSecondsText == IF segment_time = 60 THEN "60" ELSE "300"

\* the argument list section 6 of the specification prescribes
PrescribedCommand(h) ==
    << "ffmpeg", "-i", h.input_path, "-f", "segment", "-segment_time",
       SegmentSecondsText, "-c:a", "mp3", "-y",
       PromisedOutputDir(h) \o "/%03d_" \o Stem(h.input_path) \o ".mp3" >>

\* C9 (as claimed): every convert_file call that passes validation (here: on
\* an existing regular file with an .m4a extension) spawns exactly one
\* process, with the prescribed argument list.
C9_ValidatedCallSpawnsOnce ==
    \A h \in Returned :
        (PassedValidation(h) /\ h.input_path \in files) =>
            h.spawned = <<PrescribedCommand(h)>>

\* C9 (amended): every convert_file call that passes validation and whose
\* output directory can be created hands the prescribed argument list to
\* subprocess.run once; exactly one process is spawned when ffmpeg can be
\* started and none when it cannot.  A call that fails validation, or whose
\* output directory cannot be created, spawns nothing.
C9_SpawnsOnceWhenDirectoryCreated ==
    \A h \in Returned :
        IF PassedValidation(h) /\ ~OutputDirBlocked(h)
        THEN /\ h.argv = PrescribedCommand(h)
             /\ h.spawned = IF ffmpegInstalled THEN <<PrescribedCommand(h)>>
                            ELSE <<>>
        ELSE h.spawned = <<>> /\ h.argv = <<>>

\* C9 witness: a call spawned ffmpeg, and another passed validation but
\* spawned nothing because its output directory is a regular file
C9_Witness ==
    /\ \E h \in Calls : Len(h.spawned) = 1 /\ h.output_dir.given
    /\ \E h \in Calls : /\ PassedValidation(h)
                        /\ OutputDirBlocked(h)
                        /\ h.spawned = <<>>

\* C10: two convert_file calls on the same valid input with the same explicit
\* output directory, ffmpeg succeeding the first time and not failing the
\* second time, return the same Success; the second is not stopped by the
\* output directory being there already.
C10_Idempotent ==
    \A i \in 1..Len(hist), j \in {Len(hist)} :
        (/\ i < j
         /\ hist[i].input_file = hist[j].input_file
         /\ hist[i].output_dir = hist[j].output_dir
         /\ hist[i].output_dir.given
         /\ hist[i].rc = "zero"
         /\ hist[j].rc # "nonzero") =>
            /\ IsSuccess(hist[j])
            /\ hist[j].ret = hist[i].ret

\* C10 witness: the same call was made twice and ffmpeg succeeded both times
C10_Witness ==
    \E i, j \in 1..Len(hist) :
        /\ i < j
        /\ hist[i].input_file = hist[j].input_file
        /\ hist[i].output_dir = hist[j].output_dir
        /\ hist[i].output_dir.given
        /\ hist[i].rc = "zero"
        /\ hist[j].rc = "zero"

\* the first n paths of the listing of the batch in progress
Listed(n) == {batch.listing[k] : k \in 1..n}

\* C11: within one convert_directory call the files are handled one at a
\* time in the order of the listing: never more than one child process is
\* alive; when the child for a file is started, every file listed before it
\* has finished and has its outcome in the report; and when the call has
\* returned no child is alive.
C11_OneFileAtATime ==
    /\ Cardinality(running) <= 1
    /\ pc # "running" => running = {}
    /\ mode = "dir" =>
          LET finished == Len(hist) - batch.first + 1
          IN  /\ finished \in 0..Len(batch.listing)
              /\ \A k \in 1..finished :
                    hist[batch.first + k - 1].input_file = batch.listing[k]
              /\ DOMAIN results = Names(Listed(finished))
              /\ pc = "running" =>
                    /\ finished < Len(batch.listing)
                    /\ inv.input_file = batch.listing[finished + 1]
                    /\ running = {inv.argv}
              /\ pc = "loop" =>
                    Cardinality(pending) = Len(batch.listing) - finished

\* C11 witness: the child for the second file of a listing is alive, after
\* the child for the first file has exited and its outcome is in the report
C11_Witness ==
    /\ mode = "dir"
    /\ pc = "running"
    /\ Len(hist) >= batch.first
    /\ hist[Len(hist)].rc # "none"
    /\ Name(hist[Len(hist)].input_file) \in DOMAIN results
    /\ running = {inv.argv}

\* C12: the segment files process_with_progress copies and yields for a
\* successful conversion are all files that this conversion produced; none
\* of them was left in the output directory by an earlier conversion.
C12_YieldsOnlyOwnSegments ==
    (lastWeb.done /\ lastWeb.kind = "yield" /\ Len(lastWeb.converted_files) > 0) =>
        \A i \in 1..Len(lastWeb.sources) : lastWeb.sources[i] \in lastWeb.produced
====
